---- MODULE Spec2Model ----
(***************************************************************************)
(* Model of the per-connection SSH relay of server/src/index.ts: the       *)
(* closure state of one WebSocket connection (sshClient, sshStream,        *)
(* connected, pendingResize), its message handler, and the handlers it     *)
(* registers on the ssh2 Client and on the shell stream.                   *)
(*                                                                         *)
(* The ssh2 library and the WebSocket are the environment.  Every Client   *)
(* created by a connect message is an object of its own that keeps         *)
(* emitting events to the handlers registered on it, whatever the session  *)
(* variables hold by then: end() only asks the library to close.           *)
(*                                                                         *)
(* A Client emits 'ready' at most once, while it is connecting; 'error' at *)
(* most once, before it has closed; 'end' once, after which it emits       *)
(* nothing but the callbacks of shell requests still pending on it, which  *)
(* then fail.  A shell request yields a stream only on a Client that is    *)
(* ready.  A stream emits 'data' until its 'close'.  The WebSocket emits   *)
(* 'message' while OPEN, then 'error' (CLOSING) and 'close' (CLOSED).      *)
(*                                                                         *)
(* Every connection is served by the one Node process: an exception that   *)
(* leaves a handler uncaught ends the process and with it every session.   *)
(*                                                                         *)
(* The last part models the page of webterminal/src/app/page.tsx, the      *)
(* client of this server: socketRef, its status and the WebSockets it has  *)
(* created.  Spec, SpecDims and SpecProcess are behaviours of one server   *)
(* session; SpecPage is the behaviour of one page.                         *)
(***************************************************************************)
EXTENDS Integers, Sequences, FiniteSets, TLC

\* ------------------------------------------------------------------ bounds
\* Number of connect messages that get as far as `new Client()`.
MaxClients == 2

\* Number of WebSockets the page creates.
MaxSockets == 3

\* --------------------------------------------------------------- constants
Null == 0            \* a null handle (sshClient, sshStream)
Undef == -1          \* an absent optional field of a parsed message
DefaultPort == 22
DefaultCols == 80
DefaultRows == 24
PixelFactor == 8     \* setWindow(rows, cols, rows * 8, cols * 8)

\* Bytes a remote stream delivers: an ASCII byte, the lead byte and the
\* continuation byte of a two-byte UTF-8 sequence.  Code points they decode to.
ByteA == 97
ByteLead == 195
ByteCont == 169
CharA == 97
CharE == 233
CharReplacement == 65533

\* The three bytes U+FFFD is sent as in a text frame.
ByteRepl1 == 239
ByteRepl2 == 191
ByteRepl3 == 189

VARIABLES
  sshClient,       \* Null or the index in clients of the current Client
  sshStream,       \* Null or the index in streams of the current ClientChannel
  connected,       \* the boolean flag
  pendingResize,   \* NoResize or [cols, rows]
  wsState,         \* readyState of the WebSocket: "open", "closing", "closed"
  clients,         \* every ssh2 Client created so far, in creation order
  streams,         \* every shell stream opened so far, in creation order
  log,             \* what the last handler did, in order: sends and library calls
  ev,              \* the event the last handler was run for
  running,         \* the Node process that serves every connection is alive
  peer,            \* another session served by the same process
  socketRef,       \* page.tsx: Null or the index in sockets of socketRef.current
  sockets,         \* page.tsx: readyState of every WebSocket the page created
  pageStatus       \* page.tsx: the status state of the page

serverVars == <<sshClient, sshStream, connected, pendingResize, wsState,
                clients, streams, log, ev, running, peer>>

pageVars == <<socketRef, sockets, pageStatus>>

vars == <<sshClient, sshStream, connected, pendingResize, wsState,
          clients, streams, log, ev, running, peer,
          socketRef, sockets, pageStatus>>

NoResize == [cols |-> Undef, rows |-> Undef]

\* ------------------------------------------------------------------ frames
\* A raw inbound frame.  json = FALSE is a frame that is not JSON text;
\* isNull = TRUE is the JSON text null.
NoFrame ==
  [json |-> FALSE, isNull |-> FALSE, type |-> "", host |-> "", username |-> "",
   password |-> "", port |-> Undef, cols |-> Undef, rows |-> Undef, data |-> ""]

\* Connect messages: one with every field, and three without the optional
\* fields and with one of the credentials empty.
ConnectFull ==
  [json |-> TRUE, isNull |-> FALSE, type |-> "connect", host |-> "10.0.0.5",
   username |-> "root", password |-> "x", port |-> 2222, cols |-> 100,
   rows |-> 30, data |-> ""]

ConnectBare == [ConnectFull EXCEPT !.port = Undef, !.cols = Undef, !.rows = Undef]

ConnectFrames ==
  { ConnectFull,
    [ConnectBare EXCEPT !.host = ""],
    [ConnectBare EXCEPT !.username = ""],
    [ConnectBare EXCEPT !.password = ""] }

InputFrames ==
  { [NoFrame EXCEPT !.json = TRUE, !.type = "input", !.data = d] : d \in {"ls"} }

ResizeFrames ==
  { [NoFrame EXCEPT !.json = TRUE, !.type = "resize", !.cols = co, !.rows = ro] :
       co \in {120, 132}, ro \in {40} }

DisconnectFrames == { [NoFrame EXCEPT !.json = TRUE, !.type = "disconnect"] }

UnknownFrames == { [NoFrame EXCEPT !.json = TRUE, !.type = "ping"] }

JsonNull == [NoFrame EXCEPT !.json = TRUE, !.isNull = TRUE]

RawFrames ==
  {NoFrame} \cup ConnectFrames \cup InputFrames \cup ResizeFrames
            \cup DisconnectFrames \cup UnknownFrames

\* JSON.parse(raw.toString()): throws on a frame that is not JSON.
ParseThrows(raw) == ~raw.json

\* parsed.type: throws a TypeError when parsed is null.  Nothing catches it:
\* the try block ends after JSON.parse, and an exception that leaves the
\* 'message' listener is an uncaught exception of the process.
TypeThrows(raw) == raw.isNull

\* Destructuring defaults of the connect branch.
WithDefault(v, d) == IF v = Undef THEN d ELSE v

\* !host || !username || !password
MissingCredentials(m) == m.host = "" \/ m.username = "" \/ m.password = ""

\* --------------------------------------------------------------- log items
LogItem(op, status, text, target, args) ==
  [op |-> op, status |-> status, text |-> text, target |-> target, args |-> args]

Status(status, text) == LogItem("status", status, text, Null, <<>>)
Output(chars) == LogItem("output", "", "", Null, chars)
CallNew(c) == LogItem("new", "", "", c, <<>>)
CallConnect(c, port) == LogItem("connect", "", "", c, <<port>>)
CallShell(c, cols, rows) == LogItem("shell", "", "", c, <<cols, rows>>)
CallClientEnd(c) == LogItem("client.end", "", "", c, <<>>)
CallStreamEnd(s) == LogItem("stream.end", "", "", s, <<>>)
CallWrite(s, text) == LogItem("write", "", text, s, <<>>)
CallSetWindow(s, rows, cols) ==
  LogItem("setWindow", "", "", s, <<rows, cols, rows * PixelFactor, cols * PixelFactor>>)

\* sendStatus: sends only while the socket is OPEN.
sendStatus(m) == IF wsState = "open" THEN <<m>> ELSE <<>>

\* ------------------------------------------------------------------ events
\* kind: the type of the message or the name of the event; c, s: the Client
\* and the stream that emitted it.
Event(kind, c, s) == [kind |-> kind, c |-> c, s |-> s]

\* ------------------------------------------------------- Buffer.toString
\* data.toString('utf-8') of one chunk: a lead byte followed by a
\* continuation byte is one character; a lead byte or a continuation byte on
\* its own is U+FFFD.
RECURSIVE toStringUtf8(_)
toStringUtf8(bytes) ==
  IF bytes = <<>> THEN <<>>
  ELSE IF Head(bytes) = ByteA THEN <<CharA>> \o toStringUtf8(Tail(bytes))
  ELSE IF Head(bytes) = ByteLead /\ Len(bytes) >= 2 /\ bytes[2] = ByteCont
       THEN <<CharE>> \o toStringUtf8(Tail(Tail(bytes)))
  ELSE <<CharReplacement>> \o toStringUtf8(Tail(bytes))

\* Chunks a stream delivers: "a" and a whole two-byte character, and the same
\* text cut after the lead byte.
Chunks == { <<ByteA, ByteLead, ByteCont>>, <<ByteA, ByteLead>> }

\* ----------------------------------------------------------------- cleanup
\* cleanup(): the calls it makes, and the values it leaves.
cleanupLog ==
  (IF sshStream # Null THEN <<CallStreamEnd(sshStream)>> ELSE <<>>)
  \o (IF sshClient # Null THEN <<CallClientEnd(sshClient)>> ELSE <<>>)

cleanupStreams(ss) ==
  IF sshStream # Null THEN [ss EXCEPT ![sshStream].ended = TRUE] ELSE ss

cleanupClients(cs) ==
  IF sshClient # Null THEN [cs EXCEPT ![sshClient].ended = TRUE] ELSE cs

\* A cleanup that forgets the flag.
cleanupConnectedKept == connected

cleanupConnected == FALSE

cleanupPendingResize == NoResize

\* A cleanup that ends the stream and leaves the Client alone.
cleanupSkipsClient(sent, cs, ss) ==
  /\ log' = sent \o (IF sshStream # Null THEN <<CallStreamEnd(sshStream)>> ELSE <<>>)
  /\ streams' = cleanupStreams(ss)
  /\ clients' = cs
  /\ sshStream' = Null
  /\ sshClient' = sshClient
  /\ connected' = cleanupConnected
  /\ pendingResize' = cleanupPendingResize

\* The handler sent `sent`, left the library objects as cs and ss, then ran
\* cleanup().
cleanup(sent, cs, ss) ==
  /\ log' = sent \o cleanupLog
  /\ streams' = cleanupStreams(ss)
  /\ clients' = cleanupClients(cs)
  /\ sshStream' = Null
  /\ sshClient' = Null
  /\ connected' = cleanupConnected
  /\ pendingResize' = cleanupPendingResize

\* ----------------------------------------------------------------- process
\* Another connection of the same server, with a shell open: its closure
\* variables and its socket, and what has been sent on its socket.
PeerSession ==
  [wsState |-> "open", sshClient |-> "held", sshStream |-> "held",
   connected |-> TRUE, pendingResize |-> NoResize, sent |-> <<>>]

\* The same connection when the process has died: its socket and its SSH
\* connection are closed by the operating system.
PeerLost ==
  [wsState |-> "closed", sshClient |-> "lost", sshStream |-> "lost",
   connected |-> FALSE, pendingResize |-> NoResize, sent |-> <<>>]

\* A handler of this connection runs in the live process, reads and writes
\* only the variables of its own closure and sends only on its own socket.
ServerStep ==
  /\ running
  /\ UNCHANGED <<running, peer>>
  /\ UNCHANGED pageVars

\* An exception no handler catches: Node prints it and exits.
UncaughtException ==
  /\ running
  /\ running' = FALSE
  /\ peer' = PeerLost
  /\ log' = <<>>
  /\ UNCHANGED <<sshClient, sshStream, connected, pendingResize, wsState,
                 clients, streams>>
  /\ UNCHANGED pageVars

\* -------------------------------------------------------------------- Init
Init ==
  /\ sshClient = Null
  /\ sshStream = Null
  /\ connected = FALSE
  /\ pendingResize = NoResize
  /\ wsState = "open"
  /\ clients = <<>>
  /\ streams = <<>>
  /\ log = <<>>
  /\ ev = Event("init", Null, Null)
  /\ running = TRUE
  /\ peer = PeerSession
  /\ socketRef = Null
  /\ sockets = <<>>
  /\ pageStatus = "idle"

\* ------------------------------------------------------- ws.on('message')
\* if (connected) of the connect branch
connectRejected == connected

\* if (!connected || !sshStream) of case 'input'
inputRejected == ~connected \/ sshStream = Null

\* if (connected || sshStream) of case 'disconnect'
disconnectAnnounced == connected \/ sshStream # Null

\* new Client() with its handlers registered and connect() issued.
\*   phase         "connecting", "ready" ('ready' emitted), "errored" ('error'
\*                 emitted), "closed" ('end' emitted)
\*   ended         end() has been called on it, or it has failed or closed
\*   cols, rows    the dimensions its 'ready' handler closes over
\*   shellPending  shell() requests made on it whose callback is still due
NewClient(m) ==
  [phase |-> "connecting", ended |-> FALSE,
   cols |-> WithDefault(m.cols, DefaultCols),
   rows |-> WithDefault(m.rows, DefaultRows),
   shellPending |-> 0]

onConnect(m) ==
  IF connectRejected THEN
    /\ log' = sendStatus(Status("error", "Already connected"))
    /\ UNCHANGED <<sshClient, sshStream, connected, pendingResize, clients, streams>>
  ELSE IF MissingCredentials(m) THEN
    /\ log' = sendStatus(Status("error", "Missing required credentials"))
    /\ UNCHANGED <<sshClient, sshStream, connected, pendingResize, clients, streams>>
  ELSE
    /\ Len(clients) < MaxClients
    /\ clients' = Append(clients, NewClient(m))
    /\ sshClient' = Len(clients) + 1
    /\ log' = <<CallNew(Len(clients) + 1)>>
              \o sendStatus(Status("connecting", ""))
              \o <<CallConnect(Len(clients) + 1, WithDefault(m.port, DefaultPort))>>
    /\ UNCHANGED <<sshStream, connected, pendingResize, streams>>

\* An input handler that treats a rejected input as the end of the session.
onInputCleansUp(m) ==
  IF inputRejected
  THEN cleanup(sendStatus(Status("error", "No active connection")), clients, streams)
  ELSE /\ log' = <<CallWrite(sshStream, m.data)>>
       /\ UNCHANGED <<sshClient, sshStream, connected, pendingResize, clients, streams>>

onInput(m) ==
  /\ log' = IF inputRejected
            THEN sendStatus(Status("error", "No active connection"))
            ELSE <<CallWrite(sshStream, m.data)>>
  /\ UNCHANGED <<sshClient, sshStream, connected, pendingResize, clients, streams>>

\* A resize handler that keeps an earlier pending value.
resizePendingKeepsFirst(m) ==
  IF sshStream # Null \/ pendingResize # NoResize
  THEN pendingResize
  ELSE [cols |-> m.cols, rows |-> m.rows]

\* pendingResize after a resize message
resizePending(m) ==
  IF sshStream # Null THEN pendingResize ELSE [cols |-> m.cols, rows |-> m.rows]

onResize(m) ==
  /\ log' = IF sshStream # Null
            THEN <<CallSetWindow(sshStream, m.rows, m.cols)>>
            ELSE <<>>
  /\ pendingResize' = resizePending(m)
  /\ UNCHANGED <<sshClient, sshStream, connected, clients, streams>>

onDisconnect ==
  cleanup(IF disconnectAnnounced
          THEN sendStatus(Status("disconnected", "Disconnected by client"))
          ELSE <<>>,
          clients, streams)

OnMessage(raw) ==
  /\ wsState = "open"
  /\ ev' = Event(IF ParseThrows(raw) THEN "malformed"
                 ELSE IF TypeThrows(raw) THEN "uncaught"
                 ELSE raw.type, Null, Null)
  /\ UNCHANGED wsState
  /\ IF ParseThrows(raw) THEN
       /\ ServerStep
       /\ log' = sendStatus(Status("error", "Invalid message format"))
       /\ UNCHANGED <<sshClient, sshStream, connected, pendingResize, clients, streams>>
     ELSE IF TypeThrows(raw) THEN UncaughtException
     ELSE IF raw.type = "connect" THEN ServerStep /\ onConnect(raw)
     ELSE IF raw.type = "input" THEN ServerStep /\ onInput(raw)
     ELSE IF raw.type = "resize" THEN ServerStep /\ onResize(raw)
     ELSE IF raw.type = "disconnect" THEN ServerStep /\ onDisconnect
     ELSE
       /\ ServerStep
       /\ log' = <<>>
       /\ UNCHANGED <<sshClient, sshStream, connected, pendingResize, clients, streams>>

\* ---------------------------------------------------- sshClient.on('ready')
\* The library authenticated client c.  The handler acts on the session
\* variables: the shell is requested on whatever sshClient holds now, with the
\* cols and rows of the connect message that created c.
readySent == sendStatus(Status("connected", ""))

OnReady(c) ==
  /\ ServerStep
  /\ c \in 1..Len(clients)
  /\ clients[c].phase = "connecting"
  /\ ev' = Event("ready", c, Null)
  /\ connected' = TRUE
  /\ LET cs == [clients EXCEPT ![c].phase = "ready"]
     IN IF sshClient # Null
        THEN /\ clients' = [cs EXCEPT ![sshClient].shellPending = @ + 1]
             /\ log' = readySent
                       \o <<CallShell(sshClient, clients[c].cols, clients[c].rows)>>
        ELSE /\ clients' = cs
             /\ log' = readySent
  /\ UNCHANGED <<sshClient, sshStream, pendingResize, wsState, streams>>

\* ------------------------------------------------------- shell callback
\* The callback of a shell() request made on client c, with a stream.  A
\* stream record: owner, the Client it is a channel of; ended, end() has been
\* called on it or it has closed; closed, 'close' emitted.
OnShellOpened(c) ==
  /\ ServerStep
  /\ c \in 1..Len(clients)
  /\ clients[c].shellPending > 0
  /\ clients[c].phase = "ready"
  /\ ev' = Event("shellOpened", c, Len(streams) + 1)
  /\ clients' = [clients EXCEPT ![c].shellPending = @ - 1]
  /\ streams' = Append(streams, [owner |-> c, ended |-> FALSE, closed |-> FALSE])
  /\ sshStream' = Len(streams) + 1
  /\ log' = IF pendingResize # NoResize
            THEN <<CallSetWindow(Len(streams) + 1, pendingResize.rows, pendingResize.cols)>>
            ELSE <<>>
  /\ pendingResize' = NoResize
  /\ UNCHANGED <<sshClient, connected, wsState>>

\* The callback of a shell() request made on client c, with an error
\* (text "E") or with neither an error nor a stream.
OnShellFailed(c, text) ==
  /\ ServerStep
  /\ c \in 1..Len(clients)
  /\ clients[c].shellPending > 0
  /\ ev' = Event("shellFailed", c, Null)
  /\ cleanup(sendStatus(Status("error", text)),
             [clients EXCEPT ![c].shellPending = @ - 1], streams)
  /\ UNCHANGED wsState

\* ------------------------------- stream.on('data'), stream.stderr.on('data')
\* Both are 'data' events of stream s and both relay the chunk as one output
\* message.
OnStreamData(s, chunk) ==
  /\ ServerStep
  /\ s \in 1..Len(streams)
  /\ ~streams[s].closed
  /\ ev' = Event("data", streams[s].owner, s)
  /\ log' = sendStatus(Output(toStringUtf8(chunk)))
  /\ UNCHANGED <<sshClient, sshStream, connected, pendingResize, wsState,
                 clients, streams>>

OnStderrData(s, chunk) ==
  /\ ServerStep
  /\ s \in 1..Len(streams)
  /\ ~streams[s].closed
  /\ ev' = Event("data", streams[s].owner, s)
  /\ log' = sendStatus(Output(toStringUtf8(chunk)))
  /\ UNCHANGED <<sshClient, sshStream, connected, pendingResize, wsState,
                 clients, streams>>

\* ------------------------------------------------------- stream.on('close')
OnStreamClose(s) ==
  /\ ServerStep
  /\ s \in 1..Len(streams)
  /\ ~streams[s].closed
  /\ ev' = Event("close", streams[s].owner, s)
  /\ cleanup(sendStatus(Status("disconnected", "Remote stream closed")),
             clients, [streams EXCEPT ![s].closed = TRUE, ![s].ended = TRUE])
  /\ UNCHANGED wsState

\* ---------------------------------------------------- sshClient.on('error')
OnClientError(c) ==
  /\ ServerStep
  /\ c \in 1..Len(clients)
  /\ clients[c].phase \in {"connecting", "ready"}
  /\ ev' = Event("error", c, Null)
  /\ cleanup(sendStatus(Status("error", "E")),
             [clients EXCEPT ![c].phase = "errored", ![c].ended = TRUE], streams)
  /\ UNCHANGED wsState

\* ------------------------------------------------------ sshClient.on('end')
OnClientEnd(c) ==
  /\ ServerStep
  /\ c \in 1..Len(clients)
  /\ clients[c].phase # "closed"
  /\ ev' = Event("end", c, Null)
  /\ cleanup(sendStatus(Status("disconnected", "SSH session ended")),
             [clients EXCEPT ![c].phase = "closed", ![c].ended = TRUE], streams)
  /\ UNCHANGED wsState

\* ------------------------------------------- ws.on('close'), ws.on('error')
OnWsClose ==
  /\ ServerStep
  /\ wsState # "closed"
  /\ wsState' = "closed"
  /\ ev' = Event("wsClose", Null, Null)
  /\ cleanup(<<>>, clients, streams)

OnWsError ==
  /\ ServerStep
  /\ wsState = "open"
  /\ wsState' = "closing"
  /\ ev' = Event("wsError", Null, Null)
  /\ cleanup(<<>>, clients, streams)

\* -------------------------------------------------------------------- Next
Next ==
  \/ \E raw \in RawFrames : OnMessage(raw)
  \/ \E c \in 1..MaxClients : OnReady(c)
  \/ \E c \in 1..MaxClients : OnShellOpened(c)
  \/ \E c \in 1..MaxClients, text \in {"E", "Failed to open shell"} : OnShellFailed(c, text)
  \/ \E s \in 1..MaxClients, chunk \in Chunks : OnStreamData(s, chunk)
  \/ \E s \in 1..MaxClients, chunk \in Chunks : OnStderrData(s, chunk)
  \/ \E s \in 1..MaxClients : OnStreamClose(s)
  \/ \E c \in 1..MaxClients : OnClientError(c)
  \/ \E c \in 1..MaxClients : OnClientEnd(c)
  \/ OnWsClose
  \/ OnWsError

Spec == Init /\ [][Next]_vars

\* The same session when the client may also send a connect message without
\* port, cols and rows.
NextDims ==
  \/ Next
  \/ OnMessage(ConnectBare)

SpecDims == Init /\ [][NextDims]_vars

\* The same session when the client may also send JSON text that is not an
\* object.
NextProcess ==
  \/ Next
  \/ OnMessage(JsonNull)

SpecProcess == Init /\ [][NextProcess]_vars

\* ================================================================ page.tsx
\* The page of the web terminal: socketRef, the status state and the
\* WebSockets it has created, each with the four listeners connectToBackend
\* registers on it.  A listener stays registered on its socket whatever
\* socketRef holds by then.  The server and the network are the environment:
\* a socket opens, delivers status and output messages while it is not
\* closed, fails, closes.
PageStep == UNCHANGED serverVars

\* Status values the server sends, and an output message.
ServerStatuses == {"connecting", "connected", "disconnected", "error"}
PayloadTypes == ServerStatuses \cup {"output"}

\* teardownSocket(shouldClose): close() is called only when asked for.
teardownSocket(shouldClose) ==
  /\ sockets' = IF socketRef # Null /\ shouldClose
                   /\ sockets[socketRef] \in {"connecting", "open"}
                THEN [sockets EXCEPT ![socketRef] = "closing"]
                ELSE sockets
  /\ socketRef' = Null

\* connectToBackend(): new WebSocket(url); socketRef.current = socket.
connectToBackend ==
  /\ Len(sockets) < MaxSockets
  /\ sockets' = Append(sockets, "connecting")
  /\ socketRef' = Len(sockets) + 1

\* The form is submitted; the button is disabled while status is
\* 'connecting'.  valid: host, username and password are filled in.
handleSubmit(valid) ==
  /\ PageStep
  /\ pageStatus # "connecting"
  /\ IF ~valid THEN
       /\ pageStatus' = "error"
       /\ UNCHANGED <<socketRef, sockets>>
     ELSE IF socketRef # Null /\ sockets[socketRef] = "open" THEN
       /\ pageStatus' = "error"
       /\ UNCHANGED <<socketRef, sockets>>
     ELSE
       /\ pageStatus' = "connecting"
       /\ connectToBackend

\* The Disconnect button, enabled when connected or when socketRef is set.
handleDisconnect ==
  /\ PageStep
  /\ pageStatus = "connected" \/ socketRef # Null
  /\ teardownSocket(TRUE)
  /\ pageStatus' = "disconnected"

\* socket.addEventListener('open')
OnSocketOpen(k) ==
  /\ PageStep
  /\ k \in 1..Len(sockets)
  /\ sockets[k] = "connecting"
  /\ sockets' = [sockets EXCEPT ![k] = "open"]
  /\ pageStatus' = "connecting"
  /\ UNCHANGED socketRef

\* socket.addEventListener('message'): a status payload sets the status, and
\* 'disconnected' and 'error' run teardownSocket() without close.
OnSocketMessage(k, payload) ==
  /\ PageStep
  /\ k \in 1..Len(sockets)
  /\ sockets[k] \in {"open", "closing"}
  /\ IF payload \in ServerStatuses
     THEN /\ pageStatus' = payload
          /\ IF payload \in {"disconnected", "error"}
             THEN teardownSocket(FALSE)
             ELSE UNCHANGED <<socketRef, sockets>>
     ELSE UNCHANGED <<socketRef, sockets, pageStatus>>

\* socket.addEventListener('close')
OnSocketClose(k) ==
  /\ PageStep
  /\ k \in 1..Len(sockets)
  /\ sockets[k] # "closed"
  /\ pageStatus' = "disconnected"
  /\ socketRef' = Null
  /\ sockets' = [sockets EXCEPT ![k] = "closed"]

\* socket.addEventListener('error'): the connection has failed, its 'close'
\* follows.
OnSocketError(k) ==
  /\ PageStep
  /\ k \in 1..Len(sockets)
  /\ sockets[k] \in {"connecting", "open"}
  /\ pageStatus' = "error"
  /\ socketRef' = Null
  /\ sockets' = [sockets EXCEPT ![k] = "closing"]

NextPage ==
  \/ \E valid \in BOOLEAN : handleSubmit(valid)
  \/ handleDisconnect
  \/ \E k \in 1..MaxSockets : OnSocketOpen(k)
  \/ \E k \in 1..MaxSockets, payload \in PayloadTypes : OnSocketMessage(k, payload)
  \/ \E k \in 1..MaxSockets : OnSocketClose(k)
  \/ \E k \in 1..MaxSockets : OnSocketError(k)

SpecPage == Init /\ [][NextPage]_vars

TypeOK ==
  /\ sshClient \in 0..Len(clients)
  /\ sshStream \in 0..Len(streams)
  /\ connected \in BOOLEAN
  /\ wsState \in {"open", "closing", "closed"}
  /\ Len(clients) <= MaxClients
  /\ running \in BOOLEAN
  /\ peer \in {PeerSession, PeerLost}
  /\ socketRef \in 0..Len(sockets)
  /\ Len(sockets) <= MaxSockets
  /\ pageStatus \in {"idle"} \cup ServerStatuses

\* ============================================================ vocabulary
\* The session holds nothing: the state the transition table calls Idle.
Idle == sshClient = Null /\ sshStream = Null /\ ~connected

\* Clients created by a connect message and not yet ended, failed or closed.
LiveClients ==
  { c \in 1..Len(clients) :
      ~clients[c].ended /\ clients[c].phase \in {"connecting", "ready"} }

\* Shell streams opened and neither ended nor closed.
LiveStreams ==
  { s \in 1..Len(streams) : ~streams[s].ended /\ ~streams[s].closed }

\* A connect or open-shell request of the current client is in flight.
Connecting == sshClient # Null /\ sshStream = Null

\* The session holds a live shell stream of its current client.
Active ==
  /\ sshClient # Null /\ sshStream # Null
  /\ streams[sshStream].owner = sshClient
  /\ ~streams[sshStream].closed /\ ~streams[sshStream].ended

ValidConnectFrames == { m \in ConnectFrames : ~MissingCredentials(m) }

Sends(l) == { i \in DOMAIN l : l[i].op \in {"status", "output"} }
StatusSends(l, status) ==
  { i \in DOMAIN l : l[i].op = "status" /\ l[i].status = status }
Calls(l, op) == { i \in DOMAIN l : l[i].op = op }

SessionUnchanged ==
  UNCHANGED <<sshClient, sshStream, connected, pendingResize, clients, streams>>

\* ==================================================================== C1
\* C1: in every reachable state at most one SSH client that was created by a
\* connect message is still outstanding (not ended), and at most one shell
\* stream exists.
C1_AtMostOneRemoteConnection ==
  Cardinality(LiveClients) <= 1 /\ Cardinality(LiveStreams) <= 1

\* ==================================================================== C2
\* C2: a connect message received while an earlier attempt is in flight is
\* answered with Status(error, "Already connected"), creates no client and
\* leaves the session variables and the in-flight client alone.
C2_ConnectWhileConnectingRejected ==
  [][ (ev'.kind = "connect" /\ Connecting)
      => ( /\ log' = <<Status("error", "Already connected")>>
           /\ SessionUnchanged ) ]_vars

\* ==================================================================== C3
\* C3: when the 'ready' event or the shell callback of a client that cleanup
\* has already ended arrives in an idle session, the session stays idle:
\* no stream is stored, no shell is requested, no Status(connected) is sent.
C3_StaleOutcomeInert ==
  [][ ( /\ ev'.kind \in {"ready", "shellOpened"}
        /\ clients[ev'.c].ended
        /\ Idle )
      => ( /\ Idle'
           /\ StatusSends(log', "connected") = {}
           /\ Calls(log', "shell") = {} ) ]_vars

\* ==================================================================== C4
\* C4: a disconnect message processed while the session holds an SSH client
\* or a shell stream sends exactly one Status(disconnected), and sends it
\* before it releases anything.
C4_DisconnectAnnouncedOnce ==
  [][ (ev'.kind = "disconnect" /\ (sshClient # Null \/ sshStream # Null))
      => ( /\ Cardinality(StatusSends(log', "disconnected")) = 1
           /\ log'[1] = Status("disconnected", "Disconnected by client")
           /\ Idle' ) ]_vars

\* ==================================================================== C5
\* C5: a disconnect message processed while the session holds no SSH client
\* and no shell stream sends nothing and leaves the session idle.
C5_DisconnectSilentWhenEmpty ==
  [][ (ev'.kind = "disconnect" /\ sshClient = Null /\ sshStream = Null)
      => (Sends(log') = {} /\ Idle') ]_vars

\* ==================================================================== C6
\* The handlers that run cleanup().
CleanupKinds ==
  {"disconnect", "shellFailed", "close", "error", "end", "wsClose", "wsError"}

\* A resize message received while no stream is held becomes the pending
\* value, whatever was pending before.
ResizeOverwrites ==
  (ev'.kind = "resize" /\ sshStream = Null) =>
    \A raw \in ResizeFrames :
      OnMessage(raw) =>
        (pendingResize' = [cols |-> raw.cols, rows |-> raw.rows] /\ log' = <<>>)

\* The shell callback applies a pending value once, to the stream it was
\* given, and empties it.
PendingAppliedAtShellOpen ==
  (ev'.kind = "shellOpened" /\ pendingResize # NoResize) =>
    /\ log' = <<CallSetWindow(sshStream', pendingResize.rows, pendingResize.cols)>>
    /\ sshStream' = Len(streams')
    /\ pendingResize' = NoResize

\* C6 as stated: a pending value stays until a later resize replaces it or
\* the shell stream of the next attempt opens; then it is applied exactly once
\* and emptied.
C6_PendingKeptUntilShellOpens ==
  [][ /\ ResizeOverwrites
      /\ PendingAppliedAtShellOpen
      /\ (pendingResize # NoResize /\ ev'.kind \notin {"resize", "shellOpened"})
           => pendingResize' = pendingResize ]_vars

\* C6 as amended: a pending value stays until a later resize replaces it, the
\* shell stream opens, or a handler runs cleanup(), which discards it
\* unapplied; when a shell stream opens with a value pending, setWindow is
\* called exactly once with the most recently received dimensions and the
\* pending value is emptied.
C6_PendingKeptUntilShellOpensOrCleanup ==
  [][ /\ ResizeOverwrites
      /\ PendingAppliedAtShellOpen
      /\ (pendingResize # NoResize /\ ev'.kind \notin {"resize", "shellOpened"})
           => IF ev'.kind \in CleanupKinds
              THEN pendingResize' = NoResize /\ Calls(log', "setWindow") = {}
              ELSE pendingResize' = pendingResize /\ Calls(log', "setWindow") = {} ]_vars

\* The shell callback found a resize pending and applied it to the stream it
\* was given.
C6_Witness ==
  /\ ev.kind = "shellOpened"
  /\ sshStream # Null
  /\ log = <<CallSetWindow(sshStream, 40, 132)>>
  /\ pendingResize = NoResize

\* ==================================================================== C7
\* C7: an input message received while the session is not Active writes to
\* no stream, sends exactly one Status(error, "No active connection") and
\* changes nothing.
C7_InputRejectedUnlessActive ==
  [][ (ev'.kind = "input" /\ ~Active)
      => ( /\ log' = <<Status("error", "No active connection")>>
           /\ SessionUnchanged ) ]_vars

\* ==================================================================== C8
\* Status(connected) has been sent for client c and nothing has ended it
\* since: its 'ready' handler ran, and it ran while the socket was open.
Announced(c) ==
  wsState = "open" /\ clients[c].phase = "ready" /\ ~clients[c].ended

\* C8: once Status(connected) has been sent for an attempt its shell stream
\* is open, so an input message after it is written to the stream, and no
\* shell-open failure follows it.
C8_ConnectedOnlyWhenActive ==
  [][ /\ (StatusSends(log', "connected") # {}) => Active'
      /\ (ev'.kind = "input" /\ sshClient # Null /\ Announced(sshClient))
           => Calls(log', "write") # {}
      /\ (ev'.kind = "shellFailed") => ~Announced(ev'.c) ]_vars

\* ==================================================================== C9
\* Client c had a shell stream that has closed.
StreamClosedOf(c) ==
  \E s \in 1..Len(streams) : streams[s].owner = c /\ streams[s].closed

\* C9: when the stream of an Active session closes the client is sent
\* Status(disconnected, "Remote stream closed") and the session is idle; a
\* valid connect in that idle session is accepted; and no later event of the
\* closed connection touches the client of the new attempt.
C9_StreamCloseThenFreshConnect ==
  [][ /\ (Active /\ wsState = "open" /\ ev'.kind = "close" /\ ev'.s = sshStream)
           => ( /\ log'[1] = Status("disconnected", "Remote stream closed")
                /\ Idle' )
      /\ (ev'.kind = "connect" /\ Idle) =>
           \A raw \in ValidConnectFrames :
             OnMessage(raw) =>
               (StatusSends(log', "connecting") # {} /\ sshClient' = Len(clients'))
      /\ ( /\ sshClient # Null
           /\ ev'.c # Null /\ ev'.c # sshClient
           /\ StreamClosedOf(ev'.c) )
           => (sshClient' = sshClient /\ ~clients'[sshClient].ended) ]_vars

\* =================================================================== C10
\* C10: after a disconnect message the session is idle, whatever it held
\* before, and a valid connect message that comes next is accepted: it sends
\* Status(connecting) and creates a new client, which becomes the current one.
C10_DisconnectThenConnectAccepted ==
  [][ /\ (ev'.kind = "disconnect") => Idle'
      /\ (ev.kind = "disconnect" /\ ev'.kind = "connect") =>
           \A raw \in ValidConnectFrames :
             OnMessage(raw) =>
             /\ StatusSends(log', "connecting") # {}
             /\ Calls(log', "new") # {}
             /\ Len(clients') = Len(clients) + 1
             /\ sshClient' = Len(clients')
             /\ clients'[sshClient'].phase = "connecting"
             /\ ~clients'[sshClient'].ended ]_vars

\* A disconnect has torn down a connected session with an open stream, and a
\* connect can follow.
C10_Witness ==
  /\ ev.kind = "disconnect"
  /\ Calls(log, "client.end") # {} /\ Calls(log, "stream.end") # {}
  /\ Idle
  /\ Len(clients) < MaxClients

\* =================================================================== C11
\* C11: a frame that is not JSON, a connect message without host, username
\* or password in an idle session, a connect message rejected because the
\* session is connected, and an input message rejected for want of a
\* connection are each answered with exactly one Status(error) and leave
\* sshClient, sshStream, connected, pendingResize and every library object
\* as they were.
C11_RejectionsChangeNothing ==
  [][ /\ (ev'.kind = "malformed")
           => ( /\ log' = <<Status("error", "Invalid message format")>>
                /\ SessionUnchanged )
      /\ (ev'.kind = "connect" /\ Idle) =>
           \A raw \in ConnectFrames \ ValidConnectFrames :
             OnMessage(raw) =>
               ( /\ log' = <<Status("error", "Missing required credentials")>>
                 /\ SessionUnchanged )
      /\ (ev'.kind = "connect" /\ connectRejected)
           => ( /\ log' = <<Status("error", "Already connected")>>
                /\ SessionUnchanged )
      /\ (ev'.kind = "input" /\ inputRejected)
           => ( /\ log' = <<Status("error", "No active connection")>>
                /\ SessionUnchanged ) ]_vars

\* An input message was rejected while a connect attempt was in flight, and
\* the attempt is still the current one.
C11_Witness ==
  /\ ev.kind = "input"
  /\ log = <<Status("error", "No active connection")>>
  /\ sshClient # Null /\ ~clients[sshClient].ended
  /\ pendingResize # NoResize

\* =================================================================== C12
\* The first thing the handler did was to send Status(error) with a reason.
ErrorReported(l) ==
  /\ l # <<>>
  /\ l[1].op = "status" /\ l[1].status = "error"
  /\ l[1].text \in {"E", "Failed to open shell"}

\* C12: when a Client emits 'error' or a shell request fails, the handler
\* sends Status(error, reason) if the socket is open, calls end() on the
\* stream and on the Client the session holds, the failed Client is no longer
\* live, and the session is idle; a valid connect message that comes next is
\* accepted.
C12_FailureReleasesAndIdles ==
  [][ /\ (ev'.kind \in {"error", "shellFailed"}) =>
           /\ (wsState = "open") => ErrorReported(log')
           /\ (sshStream # Null) =>
                ( /\ \E i \in DOMAIN log' : log'[i] = CallStreamEnd(sshStream)
                  /\ streams'[sshStream].ended )
           /\ (sshClient # Null) =>
                ( /\ \E i \in DOMAIN log' : log'[i] = CallClientEnd(sshClient)
                  /\ clients'[sshClient].ended )
           /\ clients'[ev'.c].ended
           /\ Idle'
      /\ (ev.kind \in {"error", "shellFailed"} /\ ev'.kind = "connect") =>
           \A raw \in ValidConnectFrames :
             OnMessage(raw) =>
               /\ StatusSends(log', "connecting") # {}
               /\ sshClient' = Len(clients')
               /\ clients'[sshClient'].phase = "connecting" ]_vars

\* A shell request failed on the Client of a connected session, which the
\* handler then ended, and a connect can follow.
C12_Witness ==
  /\ ev.kind = "shellFailed"
  /\ log = <<Status("error", "Failed to open shell"), CallClientEnd(ev.c)>>
  /\ Idle
  /\ Len(clients) < MaxClients

\* =================================================================== C13
\* The bytes of a text as ws.send() puts it on the wire: its UTF-8 encoding.
RECURSIVE utf8Encode(_)
utf8Encode(chars) ==
  IF chars = <<>> THEN <<>>
  ELSE (IF Head(chars) = CharA THEN <<ByteA>>
        ELSE IF Head(chars) = CharE THEN <<ByteLead, ByteCont>>
        ELSE <<ByteRepl1, ByteRepl2, ByteRepl3>>)
       \o utf8Encode(Tail(chars))

\* C13: every chunk the stream of an Active session delivers while the
\* socket is open is sent as exactly one output message, by the handler of
\* that chunk and so in arrival order, and the message carries the bytes of
\* the chunk unchanged.
C13_OutputRelayedVerbatim ==
  [][ (ev'.kind = "data" /\ wsState = "open" /\ Active /\ ev'.s = sshStream) =>
        \A chunk \in Chunks :
          (OnStreamData(ev'.s, chunk) \/ OnStderrData(ev'.s, chunk)) =>
            /\ Len(log') = 1
            /\ log'[1].op = "output"
            /\ utf8Encode(log'[1].args) = chunk ]_vars

\* =================================================================== C14
\* C14: once the socket has closed or failed nothing is sent on it, and in
\* every later state, whatever the library reports afterwards, the session
\* holds no Client and no stream.
C14_TerminalAfterTransportGone ==
  (wsState # "open") =>
    /\ Sends(log) = {}
    /\ sshClient = Null
    /\ sshStream = Null

\* =================================================================== C15
\* C15: a valid connect message accepted in an idle session creates a
\* Client, sends Status(connecting) before anything else is sent and calls
\* connect() with the port of the message, 22 when it has none; and when a
\* Client that has not been ended becomes ready, the shell is requested on
\* that Client, with the cols and rows of the message that created it, 80
\* and 24 when it had none.  No shell is ever requested on a Client for
\* another Client's outcome or with another message's dimensions.
C15_ShellOnOwnConnectionWithOwnSize ==
  [][ /\ (ev'.kind = "connect" /\ Idle) =>
           \A raw \in {ConnectFull, ConnectBare} :
             OnMessage(raw) =>
               LET n == Len(clients) + 1
               IN /\ log' = << CallNew(n), Status("connecting", ""),
                               CallConnect(n, IF raw.port = Undef THEN 22 ELSE raw.port) >>
                  /\ sshClient' = n
                  /\ clients'[n].cols = (IF raw.cols = Undef THEN 80 ELSE raw.cols)
                  /\ clients'[n].rows = (IF raw.rows = Undef THEN 24 ELSE raw.rows)
      /\ (ev'.kind = "ready" /\ ~clients[ev'.c].ended) =>
           \E i \in DOMAIN log' :
             log'[i] = CallShell(ev'.c, clients[ev'.c].cols, clients[ev'.c].rows)
      /\ \A i \in Calls(log', "shell") :
           /\ log'[i].target = ev'.c
           /\ log'[i].args = <<clients[log'[i].target].cols, clients[log'[i].target].rows>>
    ]_vars

\* =================================================================== C16
\* C16: whatever is processed for this session (a message, a library event,
\* an error, a teardown) leaves the variables of the other session of the
\* same process and its socket as they were, and sends nothing on its socket.
C16_OtherSessionUntouched ==
  [][ peer' = peer ]_vars

\* =================================================================== C17
\* A frame that is not a connect, input, resize or disconnect message: not
\* JSON, JSON that is not an object, or an object with another type.
NotAMessage(kind) == kind \notin {"connect", "input", "resize", "disconnect"}

\* C17: every inbound frame that is not a connect, input, resize or
\* disconnect message is answered with exactly one Status(error) and leaves
\* the session as it was.
C17_NoFrameSwallowed ==
  [][ (\E raw \in RawFrames \cup {JsonNull} :
         OnMessage(raw) /\ NotAMessage(ev'.kind)) =>
        /\ Cardinality(StatusSends(log', "error")) = 1
        /\ Len(log') = 1
        /\ SessionUnchanged
        /\ running' ]_vars

\* =================================================================== C18
\* C18: in every state, a stream held implies that connected is set and a
\* Client is held, and connected implies that a Client is held.
C18_FlagAndHandlesAgree ==
  /\ (sshStream # Null) => (connected /\ sshClient # Null)
  /\ connected => (sshClient # Null)

\* =================================================================== C19
\* Client c was released by cleanup() and the session now holds a Client
\* created after it.
Superseded(c) ==
  /\ c # Null
  /\ sshClient # Null
  /\ c < sshClient
  /\ clients[c].ended

\* C19: an 'end', 'error' or 'ready' event of a released Client, or the
\* 'close' of its stream, arriving when the session holds a newer Client,
\* leaves sshClient, sshStream, connected and pendingResize as they are,
\* ends neither the newer Client nor its stream, and requests no shell.
C19_ReleasedConnectionInert ==
  [][ (ev'.kind \in {"end", "error", "ready", "close"} /\ Superseded(ev'.c)) =>
        /\ UNCHANGED <<sshClient, sshStream, connected, pendingResize>>
        /\ clients'[sshClient] = clients[sshClient]
        /\ Calls(log', "client.end") = {}
        /\ Calls(log', "stream.end") = {}
        /\ Calls(log', "shell") = {} ]_vars

\* =================================================================== C20
\* WebSockets of the page that are open.
OpenSockets == { k \in 1..Len(sockets) : sockets[k] = "open" }

\* C20: every WebSocket of the page that is open is the one socketRef
\* holds, so at most one is open at any time.
C20_OpenSocketIsReferenced ==
  /\ \A k \in OpenSockets : socketRef = k
  /\ Cardinality(OpenSockets) <= 1
====
